---- MODULE Spec2Model ----
(***************************************************************************)
(* Agent orchestration of the SRE assistant (backend/app/services/         *)
(* ai_agent.py): the conversation-context builder, the tool registry and   *)
(* its failure isolation, the tool-use loop of one chat turn and the       *)
(* extraction of the tool-call records returned with the turn.             *)
(*                                                                         *)
(* Text is modelled as a sequence of tokens; a substring test is an infix  *)
(* test on token sequences.  A Python dict is a TLA+ function whose        *)
(* DOMAIN is the set of its keys.                                          *)
(***************************************************************************)
EXTENDS Integers, Sequences, FiniteSets, TLC

(***************************************************************************)
(* Bounds of the model.                                                    *)
(***************************************************************************)
\* longest conversation history a request carries (context specification)
MaxHistory == 3
\* most tool calls the engine requests during one turn
MaxCalls == 2
\* most tool calls of a turn in the endpoint and analysis specifications
MaxSideCalls == 1
\* most turns served concurrently
MaxTurns == 2
\* most documents of the collection
MaxDocs == 3
\* most pods and most containers of a snapshot
MaxPods == 2
MaxContainers == 2

(***************************************************************************)
(* Text helpers.                                                           *)
(***************************************************************************)
\* Python None, where it is compared with a string (msg.get("role"))
None == "<None>"

NL == "\n"

\* Python `sub in s` on strings: sub occurs as a contiguous infix of s
Contains(s, sub) ==
    \E i \in 0..(Len(s) - Len(sub)) : SubSeq(s, i + 1, i + Len(sub)) = sub

\* Python sep.join(list): the pieces with sep between each two neighbours
RECURSIVE Join(_, _)
Join(list, sep) ==
    IF list = <<>> THEN <<>>
    ELSE IF Len(list) = 1 THEN list[1]
    ELSE list[1] \o sep \o Join(Tail(list), sep)

\* dict.get(key, default)
Get(msg, key, default) == IF key \in DOMAIN msg THEN msg[key] ELSE default

(***************************************************************************)
(* Conversation context builder: SREAgent.chat, lines 464-495.             *)
(***************************************************************************)
\* the fixed substring that marks the canned initial greeting
GreetingMarker == <<"Hello! I'm your", "SRE AI Assistant">>

\* IsInitialGreeting without the test of the role
IsInitialGreeting_AnyRole(msg) ==
    Contains(Get(msg, "content", <<>>), GreetingMarker)

\* the test of line 470
IsInitialGreeting(msg) ==
    /\ Get(msg, "role", None) = "assistant"
    /\ Contains(Get(msg, "content", <<>>), GreetingMarker)

\* lines 468-472: the loop over the messages of a history list
RECURSIVE FilterList(_)
FilterList(history) ==
    IF history = <<>> THEN <<>>
    ELSE IF IsInitialGreeting(Head(history)) THEN FilterList(Tail(history))
    ELSE <<Head(history)>> \o FilterList(Tail(history))

\* lines 466-472; conversation_history is None ([given |-> FALSE]) or a list
FilterHistory(history) ==
    IF history.given /\ Len(history.list) > 0 THEN FilterList(history.list)
    ELSE <<>>

NamespaceLine(namespace) == <<"[Current default namespace: ", namespace, "]">>

PreviousHeader == <<NL, "[Previous conversation in this session:]">>

CurrentDelimiter == <<NL, NL, "[Current user message in this ongoing conversation:]">>

UserLabel == "User said: "

AssistantLabel == "You (assistant) previously responded: "

\* lines 481-487: the entries appended for the filtered history
RECURSIVE RenderHistory(_)
RenderHistory(filtered) ==
    IF filtered = <<>> THEN <<>>
    ELSE LET msg == Head(filtered)
             role == Get(msg, "role", "user")
             content == Get(msg, "content", <<>>)
             entry == IF role = "user" THEN << <<NL, UserLabel>> \o content >>
                      ELSE IF role = "assistant"
                           THEN << <<NL, AssistantLabel>> \o content >>
                      ELSE <<>>
         IN entry \o RenderHistory(Tail(filtered))

\* BuildPrompt branching on the caller's history instead of the filtered one
BuildPrompt_TestsRawHistory(history, message, namespace) ==
    LET filtered == FilterHistory(history)
    IN IF history.given /\ history.list # <<>>
       THEN Join(<<NamespaceLine(namespace)>> \o <<PreviousHeader>>
                   \o RenderHistory(filtered)
                   \o <<CurrentDelimiter>> \o <<message>>, <<NL>>)
       ELSE NamespaceLine(namespace) \o <<NL, NL>> \o message

\* lines 475-495
BuildPrompt(history, message, namespace) ==
    LET filtered == FilterHistory(history)
    IN IF filtered # <<>>
       THEN Join(<<NamespaceLine(namespace)>> \o <<PreviousHeader>>
                   \o RenderHistory(filtered)
                   \o <<CurrentDelimiter>> \o <<message>>, <<NL>>)
       ELSE NamespaceLine(namespace) \o <<NL, NL>> \o message

(***************************************************************************)
(* Tool registry: SREAgent._register_tools, lines 192-438.                 *)
(***************************************************************************)
ReadTools ==
    {"get_pods", "get_pod_logs", "get_deployments", "get_events", "search_runbooks"}

DeleteTools ==
    {"delete_pod", "delete_deployment", "delete_service", "delete_statefulset",
     "delete_daemonset", "delete_configmap", "delete_secret"}

ToolNames == ReadTools \cup DeleteTools

\* The arguments the engine sends with a call of each tool: the resolved
\* mapping and the JSON text of the same mapping.  All of them satisfy the
\* input schemas of lines 17-121.
EngineArgs(tool) ==
    CASE tool = "get_pods" ->
           [map |-> [namespace |-> "kube-system"],
            json |-> "{\"namespace\": \"kube-system\"}"]
      [] tool = "get_pod_logs" ->
           [map |-> [pod_name |-> "web-1", namespace |-> "kube-system"],
            json |-> "{\"pod_name\": \"web-1\", \"namespace\": \"kube-system\"}"]
      [] tool = "get_deployments" ->
           [map |-> [namespace |-> "kube-system"],
            json |-> "{\"namespace\": \"kube-system\"}"]
      [] tool = "get_events" ->
           [map |-> [namespace |-> "kube-system"],
            json |-> "{\"namespace\": \"kube-system\"}"]
      [] tool = "search_runbooks" ->
           [map |-> [query |-> "pod crashloop"],
            json |-> "{\"query\": \"pod crashloop\"}"]
      [] tool = "delete_pod" ->
           [map |-> [pod_name |-> "web-1", namespace |-> "kube-system"],
            json |-> "{\"pod_name\": \"web-1\", \"namespace\": \"kube-system\"}"]
      [] tool = "delete_deployment" ->
           [map |-> [deployment_name |-> "web", namespace |-> "kube-system"],
            json |-> "{\"deployment_name\": \"web\", \"namespace\": \"kube-system\"}"]
      [] tool = "delete_service" ->
           [map |-> [service_name |-> "web", namespace |-> "kube-system"],
            json |-> "{\"service_name\": \"web\", \"namespace\": \"kube-system\"}"]
      [] tool = "delete_statefulset" ->
           [map |-> [statefulset_name |-> "db", namespace |-> "kube-system"],
            json |-> "{\"statefulset_name\": \"db\", \"namespace\": \"kube-system\"}"]
      [] tool = "delete_daemonset" ->
           [map |-> [daemonset_name |-> "agent", namespace |-> "kube-system"],
            json |-> "{\"daemonset_name\": \"agent\", \"namespace\": \"kube-system\"}"]
      [] tool = "delete_configmap" ->
           [map |-> [configmap_name |-> "cfg", namespace |-> "kube-system"],
            json |-> "{\"configmap_name\": \"cfg\", \"namespace\": \"kube-system\"}"]
      [] tool = "delete_secret" ->
           [map |-> [secret_name |-> "tls", namespace |-> "kube-system"],
            json |-> "{\"secret_name\": \"tls\", \"namespace\": \"kube-system\"}"]

\* The three forms in which a tool-call part can carry its arguments
\* (lines 514-522): an object with model_dump(), a dict, anything else (text).
ArgsForms == {"model", "dict", "str"}

PartArgs(form, tool) ==
    IF form = "str" THEN [type |-> "str", value |-> EngineArgs(tool).json]
    ELSE [type |-> form, value |-> EngineArgs(tool).map]

\* Errors the cluster API and the vector store raise (ApiException and others)
UpstreamErrors == {"(404) Reason: Not Found"}

\* What the collaborator operation a tool calls can do.  K8sClient
\* (k8s_client.py, lines 10-417) defines get_pods, get_pod_logs,
\* get_deployments, get_services, get_events, get_namespaces and
\* get_cluster_info and no delete_* method: looking one up raises
\* AttributeError.  DocumentService.search_documents returns a list or raises.
CollaboratorOutcomes(tool) ==
    IF tool \in DeleteTools
    THEN {[kind |-> "raise", error |-> "'K8sClient' object has no attribute"]}
    ELSE {[kind |-> "ok"]} \cup {[kind |-> "raise", error |-> e] : e \in UpstreamErrors}

\* The value a collaborator operation returns when it succeeds (the last
\* case is the status payload of a delete, which no outcome above reaches)
CollaboratorResult(tool) ==
    CASE tool = "get_pods" -> [pods |-> <<>>, count |-> 0]
      [] tool = "get_pod_logs" -> <<"log line">>
      [] tool = "get_deployments" -> [deployments |-> <<>>, count |-> 0]
      [] tool = "get_events" -> [events |-> <<>>, count |-> 0]
      [] tool = "search_runbooks" -> <<>>
      [] OTHER -> [status |-> "deleted"]

\* The return statement of the try branch of each tool, for the value the
\* collaborator returned
ToolPayload(tool, input, result) ==
    CASE tool = "get_pod_logs" -> [logs |-> result, pod_name |-> input.pod_name]
      [] tool = "search_runbooks" -> [results |-> result, query |-> input.query]
      [] OTHER -> result

\* The try branch of each tool: what it returns when the collaborator returns
ToolSuccess(tool, input) == ToolPayload(tool, input, CollaboratorResult(tool))

\* ToolFailure with the payload of the delete tools used by every tool
ToolFailure_StatusEverywhere(tool, error) ==
    [kind |-> "return", value |-> [error |-> error, status |-> "failed"]]

\* The except branch of each tool: read tools return {"error": str(e)},
\* delete tools {"error": str(e), "status": "failed"}
ToolFailure(tool, error) ==
    IF tool \in DeleteTools
    THEN [kind |-> "return", value |-> [error |-> error, status |-> "failed"]]
    ELSE [kind |-> "return", value |-> [error |-> error]]

\* RunTool without the except clause: the collaborator's error propagates
RunTool_NoCatch(tool, input, outcome) ==
    IF outcome.kind = "ok"
    THEN [kind |-> "return", value |-> ToolSuccess(tool, input)]
    ELSE [kind |-> "raise", error |-> outcome.error]

\* One tool function, lines 195-438: try the collaborator, catch Exception
RunTool(tool, input, outcome) ==
    IF outcome.kind = "ok"
    THEN [kind |-> "return", value |-> ToolSuccess(tool, input)]
    ELSE ToolFailure(tool, outcome.error)

(***************************************************************************)
(* Input schemas, lines 17-121, and the collaborator call of each tool.    *)
(***************************************************************************)
\* the fields of the input of each tool with their declared types
FieldTypes(tool) ==
    CASE tool = "get_pods" -> [namespace |-> "str", label_selector |-> "str|None"]
      [] tool = "get_pod_logs" ->
           [pod_name |-> "str", namespace |-> "str", container |-> "str|None",
            tail_lines |-> "int"]
      [] tool = "get_deployments" -> [namespace |-> "str", label_selector |-> "str|None"]
      [] tool = "get_events" ->
           [namespace |-> "str", field_selector |-> "str|None", limit |-> "int"]
      [] tool = "search_runbooks" -> [query |-> "str", n_results |-> "int"]
      [] tool = "delete_pod" ->
           [pod_name |-> "str", namespace |-> "str", grace_period_seconds |-> "int|None"]
      [] tool = "delete_deployment" ->
           [deployment_name |-> "str", namespace |-> "str",
            grace_period_seconds |-> "int|None"]
      [] tool = "delete_service" -> [service_name |-> "str", namespace |-> "str"]
      [] tool = "delete_statefulset" ->
           [statefulset_name |-> "str", namespace |-> "str",
            grace_period_seconds |-> "int|None"]
      [] tool = "delete_daemonset" ->
           [daemonset_name |-> "str", namespace |-> "str",
            grace_period_seconds |-> "int|None"]
      [] tool = "delete_configmap" -> [configmap_name |-> "str", namespace |-> "str"]
      [] tool = "delete_secret" -> [secret_name |-> "str", namespace |-> "str"]

\* the defaults of the fields that have one; a field without is required
FieldDefaults(tool) ==
    CASE tool = "get_pods" -> [namespace |-> "default", label_selector |-> None]
      [] tool = "get_pod_logs" ->
           [namespace |-> "default", container |-> None, tail_lines |-> 100]
      [] tool = "get_deployments" -> [namespace |-> "default", label_selector |-> None]
      [] tool = "get_events" ->
           [namespace |-> "default", field_selector |-> None, limit |-> 50]
      [] tool = "search_runbooks" -> [n_results |-> 3]
      [] tool \in {"delete_pod", "delete_deployment", "delete_statefulset",
                   "delete_daemonset"} ->
           [namespace |-> "default", grace_period_seconds |-> None]
      [] OTHER -> [namespace |-> "default"]

RequiredFields(tool) == DOMAIN FieldTypes(tool) \ DOMAIN FieldDefaults(tool)

\* a JSON value of type valueType is accepted by a field declared fieldType
TypeAccepts(fieldType, valueType) ==
    \/ valueType = "str" /\ fieldType \in {"str", "str|None"}
    \/ valueType = "int" /\ fieldType \in {"int", "int|None"}
    \/ valueType = "null" /\ fieldType \in {"str|None", "int|None"}

\* ValidArgs testing the presence of the required fields only
ValidArgs_RequiredOnly(tool, args, types) ==
    RequiredFields(tool) \subseteq DOMAIN args

\* validation of the arguments of a call against the input schema of the
\* tool: every required field is there and every field has its type
ValidArgs(tool, args, types) ==
    /\ RequiredFields(tool) \subseteq DOMAIN args
    /\ \A f \in DOMAIN args \cap DOMAIN FieldTypes(tool) :
         TypeAccepts(FieldTypes(tool)[f], types[f])

\* the validated input: the arguments given, the defaults for the others
ToolInput(tool, args) ==
    [f \in DOMAIN FieldTypes(tool) |->
       IF f \in DOMAIN args THEN args[f] ELSE FieldDefaults(tool)[f]]

\* the call of the collaborator each tool makes, lines 206-208, 226-231,
\* 248-250, 267-271, 284-286; the delete tools look up a method K8sClient
\* does not have (lines 304, 326, 347, 368, 390, 411, 431) and call nothing
AccessorCalls(tool, input, id) ==
    CASE tool = "get_pods" ->
           <<[op |-> "get_pods", tool_call_id |-> id,
              args |-> [namespace |-> input.namespace,
                        label_selector |-> input.label_selector]]>>
      [] tool = "get_pod_logs" ->
           <<[op |-> "get_pod_logs", tool_call_id |-> id,
              args |-> [pod_name |-> input.pod_name, namespace |-> input.namespace,
                        container |-> input.container,
                        tail_lines |-> input.tail_lines]]>>
      [] tool = "get_deployments" ->
           <<[op |-> "get_deployments", tool_call_id |-> id,
              args |-> [namespace |-> input.namespace,
                        label_selector |-> input.label_selector]]>>
      [] tool = "get_events" ->
           <<[op |-> "get_events", tool_call_id |-> id,
              args |-> [namespace |-> input.namespace,
                        field_selector |-> input.field_selector,
                        limit |-> input.limit]]>>
      [] tool = "search_runbooks" ->
           <<[op |-> "search_documents", tool_call_id |-> id,
              args |-> [query |-> input.query, n_results |-> input.n_results]]>>
      [] OTHER -> <<>>

(***************************************************************************)
(* Extraction of the tool-call records: SREAgent.chat, lines 507-529.      *)
(***************************************************************************)
\* hasattr(obj, name) on a message part
HasAttr(part, name) == name \in DOMAIN part

\* lines 514-522
NormalizeArgs(part) ==
    IF HasAttr(part, "args")
    THEN IF part.args.type = "model" THEN part.args.value
         ELSE IF part.args.type = "dict" THEN part.args.value
         ELSE [raw |-> part.args.value]
    ELSE << >>

\* line 513: the parts of a message that yield a record
RecordedPart(part) == HasAttr(part, "tool_name")

\* lines 512-529 for the parts of one message
RECURSIVE PartRecords(_)
PartRecords(parts) ==
    IF parts = <<>> THEN <<>>
    ELSE (IF RecordedPart(Head(parts))
          THEN <<[tool |-> Head(parts).tool_name,
                  arguments |-> NormalizeArgs(Head(parts))]>>
          ELSE <<>>) \o PartRecords(Tail(parts))

\* ExtractToolCalls reading only the last message of the run
ExtractToolCalls_LastMessage(msgs) ==
    IF msgs = <<>> THEN <<>> ELSE PartRecords(msgs[Len(msgs)].parts)

\* lines 508-529 over result.all_messages()
RECURSIVE ExtractToolCalls(_)
ExtractToolCalls(msgs) ==
    IF msgs = <<>> THEN <<>>
    ELSE PartRecords(Head(msgs).parts) \o ExtractToolCalls(Tail(msgs))

(***************************************************************************)
(* State of one agent and of the chat turn it is serving.                  *)
(***************************************************************************)
VARIABLES
    argsForm,               \* how the configured engine represents arguments
    pc,                     \* position of the turn: idle, engine, tools,
                            \* extract, done, raised
    conversation_history,   \* chat() parameter
    user_message,           \* chat() parameter
    namespace,              \* chat() parameter
    deps,                   \* the SREDependencies of the turn
    filtered_history,       \* the history without the initial greeting
    enhanced_message,       \* the prompt handed to agent.run
    messages,               \* result.all_messages() so far
    requested,              \* the tool calls the engine requested, in order
    outcomes,               \* what the collaborator did for each dispatched call
    output,                 \* result.output
    response,               \* the dict chat() returns
    exc,                    \* the exception chat() raises
    passed_history,         \* the caller's history as it was when chat was called
    engine_runs,            \* how many times agent.run has been called
    usage,                  \* result.usage()
    http,                   \* what send_message gives the HTTP caller
    apc,                    \* position of analyze_pod_issues: idle, chat,
                            \* done, raised
    an_request,             \* analyze_pod_issues parameters
    pods_data,              \* the pod snapshot of the cluster accessor
    issues,                 \* the issues analyze_pod_issues detected
    analysis,               \* the dict analyze_pod_issues returns
    an_exc,                 \* the exception analyze_pod_issues raises
    accessor_calls,         \* the calls made on the collaborators, in order
    turns,                  \* the chat turns served concurrently
    collection,             \* the documents of the vector store, by ID
    doc_op                  \* the last operation of the document service

\* the variables of analyze_pod_issues
analysisVars == <<apc, an_request, pods_data, issues, analysis, an_exc>>

\* the variables of the concurrent turns
concurrentVars == <<turns>>

\* the variables of the document service
documentVars == <<collection, doc_op>>

vars == <<argsForm, pc, conversation_history, user_message, namespace, deps,
          filtered_history, enhanced_message, messages, requested, outcomes, output, response, exc,
          passed_history, engine_runs, usage, http, analysisVars, accessor_calls,
          concurrentVars, documentVars>>

NoValue == [none |-> TRUE]

ModelName == "gpt-4-turbo-preview"

Init ==
    /\ argsForm \in ArgsForms
    /\ pc = "idle"
    /\ conversation_history = [given |-> FALSE, list |-> <<>>]
    /\ user_message = <<>>
    /\ namespace = "default"
    /\ deps = NoValue
    /\ filtered_history = <<>>
    /\ enhanced_message = <<>>
    /\ messages = <<>>
    /\ requested = <<>>
    /\ outcomes = <<>>
    /\ output = <<>>
    /\ response = NoValue
    /\ exc = NoValue
    /\ passed_history = [given |-> FALSE, list |-> <<>>]
    /\ engine_runs = 0
    /\ usage = NoValue
    /\ http = NoValue
    /\ apc = "idle"
    /\ an_request = NoValue
    /\ pods_data = NoValue
    /\ issues = <<>>
    /\ analysis = NoValue
    /\ an_exc = NoValue
    /\ accessor_calls = <<>>
    /\ turns = <<>>
    /\ collection = {}
    /\ doc_op = NoValue

(***************************************************************************)
(* Requests.                                                               *)
(***************************************************************************)
Roles == {"user", "assistant", "system"}

Contents ==
    {<<"pods?">>,
     <<"Hello! I'm your", "SRE AI Assistant", "How can I help?">>,
     <<"Hello! I'm your">>}

\* history messages are dict[str, str]: either key may be missing
HistoryMessages ==
    [role : Roles, content : Contents]
      \cup [role : Roles] \cup [content : Contents] \cup {<< >>}

RECURSIVE SeqsUpTo(_, _)
SeqsUpTo(S, n) ==
    IF n = 0 THEN {<<>>}
    ELSE LET shorter == SeqsUpTo(S, n - 1)
         IN shorter \cup {Append(q, x) : q \in {r \in shorter : Len(r) = n - 1}, x \in S}

Histories ==
    {[given |-> FALSE, list |-> <<>>]}
      \cup {[given |-> TRUE, list |-> h] : h \in SeqsUpTo(HistoryMessages, MaxHistory)}

UserMessages == {<<"why is web-1 failing?">>, <<"Hello! I'm your", "SRE AI Assistant">>}

Namespaces == {"default", "kube-system"}

\* the request of the tool-loop specification
LoopHistories ==
    {[given |-> TRUE,
      list |-> <<[role |-> "assistant",
                  content |-> <<"Hello! I'm your", "SRE AI Assistant", "How can I help?">>],
                 [role |-> "user", content |-> <<"pods?">>]>>]}

(***************************************************************************)
(* SREAgent.chat, lines 440-544.                                           *)
(***************************************************************************)
\* HistoryAfterFilter when the loop filters the caller's list in place
HistoryAfterFilter_InPlace(history) ==
    [given |-> history.given, list |-> FilterHistory(history)]

\* lines 466-472: the loop reads the caller's list and appends to a new
\* list; this is the caller's list when the loop has ended
HistoryAfterFilter(history) == history

\* lines 457-498 of a call chat(m, h, n): build deps and the prompt, hand
\* the prompt to agent.run
ChatCall(h, m, n) ==
    /\ pc = "idle"
    /\ passed_history' = h
    /\ conversation_history' = HistoryAfterFilter(h)
    /\ user_message' = m
    /\ namespace' = n
    /\ deps' = [default_namespace |-> n]
    /\ filtered_history' = FilterHistory(h)
    /\ enhanced_message' = BuildPrompt(h, m, n)
    /\ messages' = <<[kind |-> "request",
                      parts |-> <<[part_kind |-> "system-prompt"],
                                  [part_kind |-> "user-prompt",
                                   content |-> BuildPrompt(h, m, n)]>>]>>
    /\ engine_runs' = engine_runs + 1
    /\ pc' = "engine"
    /\ UNCHANGED <<argsForm, requested, outcomes, output, response, exc, usage>>

\* send_message, chat.py lines 70-81: a chat request arrives and chat is called
ChatBegin(histories, userMessages, namespaces) ==
    /\ apc = "idle"
    /\ pc = "idle"
    /\ \E h \in histories, m \in userMessages, n \in namespaces : ChatCall(h, m, n)
    /\ UNCHANGED <<http, analysisVars, accessor_calls, concurrentVars, documentVars>>

\* the tool-call part of the call with identifier id
ToolCallPart(id, tool) ==
    [part_kind |-> "tool-call", tool_name |-> tool,
     args |-> PartArgs(argsForm, tool), tool_call_id |-> id]

\* the tool-return part that carries the result of a call
ToolReturnPart(call, value) ==
    [part_kind |-> "tool-return", tool_name |-> call.tool,
     content |-> value, tool_call_id |-> call.id]

CompletionOrders(n) == {f \in [1..n -> 1..n] : \A i, j \in 1..n : f[i] = f[j] => i = j}

\* agent.run, line 498: the engine answers with one or more requests of the
\* tools offered, at most maxCalls in the turn
RequestTools(maxCalls, offered) ==
    /\ pc = "engine"
    /\ \E k \in 1..(maxCalls - Len(requested)) :
         \E tools \in [1..k -> offered] :
           LET base == Len(requested)
               calls == [i \in 1..k |->
                          [id |-> base + i, tool |-> tools[i],
                           args |-> EngineArgs(tools[i]).map,
                           types |-> [f \in DOMAIN EngineArgs(tools[i]).map |-> "str"]]]
           IN /\ requested' = requested \o calls
              /\ messages' = Append(messages,
                   [kind |-> "response",
                    parts |-> [i \in 1..k |-> ToolCallPart(base + i, tools[i])]])
    /\ pc' = "tools"
    /\ UNCHANGED <<argsForm, conversation_history, user_message, namespace, deps,
                   filtered_history, enhanced_message, outcomes, output, response, exc>>
    /\ UNCHANGED <<passed_history, engine_runs, usage, http, analysisVars>>
    /\ UNCHANGED <<accessor_calls, concurrentVars, documentVars>>

\* the engine choosing among all registered tools
EngineRequestTools == RequestTools(MaxCalls, ToolNames)

\* The arguments the engine can send with a call of a tool: all of them,
\* without the namespace, without the required name, or with a number where
\* the schema declares a string (types holds the JSON type of each value,
\* map the value as written)
ArgVariants(tool) ==
    {[map |-> EngineArgs(tool).map, json |-> EngineArgs(tool).json,
      types |-> [f \in DOMAIN EngineArgs(tool).map |-> "str"]]}
    \cup
    (CASE tool = "get_pods" ->
            {[map |-> << >>, json |-> "{}", types |-> << >>],
             [map |-> [namespace |-> "7"], json |-> "{\"namespace\": 7}",
              types |-> [namespace |-> "int"]]}
       [] tool = "delete_pod" ->
            {[map |-> [pod_name |-> "web-1"], json |-> "{\"pod_name\": \"web-1\"}",
              types |-> [pod_name |-> "str"]],
             [map |-> [namespace |-> "kube-system"],
              json |-> "{\"namespace\": \"kube-system\"}",
              types |-> [namespace |-> "str"]]}
       [] tool = "search_runbooks" ->
            {[map |-> << >>, json |-> "{}", types |-> << >>]}
       [] OTHER -> {})

\* agent.run, line 498: the engine answers with one or more requests of the
\* tools offered, with any of the arguments it can send
RequestAnyArgs(maxCalls, offered) ==
    /\ pc = "engine"
    /\ \E k \in 1..(maxCalls - Len(requested)) :
         \E tools \in [1..k -> offered] :
         \E sent \in [1..k -> UNION {ArgVariants(t) : t \in offered}] :
           /\ \A i \in 1..k : sent[i] \in ArgVariants(tools[i])
           /\ LET base == Len(requested)
                  calls == [i \in 1..k |->
                             [id |-> base + i, tool |-> tools[i],
                              args |-> sent[i].map, types |-> sent[i].types]]
              IN /\ requested' = requested \o calls
                 /\ messages' = Append(messages,
                      [kind |-> "response",
                       parts |-> [i \in 1..k |->
                          [part_kind |-> "tool-call", tool_name |-> tools[i],
                           args |-> IF argsForm = "str"
                                    THEN [type |-> "str", value |-> sent[i].json]
                                    ELSE [type |-> argsForm, value |-> sent[i].map],
                           tool_call_id |-> base + i]]])
    /\ pc' = "tools"
    /\ UNCHANGED <<argsForm, conversation_history, user_message, namespace, deps,
                   filtered_history, enhanced_message, outcomes, output, response, exc>>
    /\ UNCHANGED <<passed_history, engine_runs, usage, http, analysisVars>>
    /\ UNCHANGED <<accessor_calls, concurrentVars, documentVars>>

\* the retry-prompt part that carries the validation error of a call
RetryPromptPart(call, text) ==
    [part_kind |-> "retry-prompt", tool_name |-> call.tool,
     content |-> text, tool_call_id |-> call.id]

\* the collaborator was not called
NotCalled == [kind |-> "not_called"]

ValidationErrorText == "validation error"

\* the tools that were sent a retry prompt in the run so far
RetriedTools(msgs) ==
    UNION {{msgs[m].parts[q].tool_name :
              q \in {r \in DOMAIN msgs[m].parts :
                       msgs[m].parts[r].part_kind = "retry-prompt"}} : m \in DOMAIN msgs}

\* the result of one call: the arguments are validated against the input
\* schema first, and the tool function runs on the validated input only
CallResult(call, outcome) ==
    IF ValidArgs(call.tool, call.args, call.types)
    THEN RunTool(call.tool, ToolInput(call.tool, call.args), outcome)
    ELSE [kind |-> "retry", value |-> ValidationErrorText]

\* the calls of the collaborators one call makes
CallAccesses(call) ==
    IF ValidArgs(call.tool, call.args, call.types)
    THEN AccessorCalls(call.tool, ToolInput(call.tool, call.args), call.id)
    ELSE <<>>

\* DispatchFailure with a cap on the steps of a run: the run ends with an
\* error once the engine has been sent the results of one round of calls
DispatchFailure_StepCap(calls, results, msgs) ==
    [origin |-> "limit", error |-> "The next request would exceed the request limit"]

\* what ends the run when the calls of a round have been dispatched, if
\* anything: an exception that left a tool, or a tool whose arguments fail
\* validation again after its retry prompt; no count of rounds ends it
DispatchFailure(calls, results, msgs) ==
    LET raising == {i \in DOMAIN results : results[i].kind = "raise"}
        exhausted == {i \in DOMAIN results : /\ results[i].kind = "retry"
                                             /\ calls[i].tool \in RetriedTools(msgs)}
    IN IF raising # {}
       THEN [origin |-> "tool", error |-> results[CHOOSE i \in raising : TRUE].error]
       ELSE IF exhausted # {}
       THEN [origin |-> "validation", error |-> "Tool exceeded max retries count of 1"]
       ELSE NoValue

\* agent.run, line 498: the arguments of the requested calls are validated,
\* the tools of the valid calls run (lines 195-438), possibly concurrently,
\* and the results and validation errors go back to the engine as one
\* request; a tool whose arguments fail validation again after its retry
\* prompt ends the run with an error
DispatchTools ==
    /\ pc = "tools"
    /\ LET base == Len(outcomes)
           k == Len(requested) - base
       IN \E outs \in [1..k -> UNION {CollaboratorOutcomes(t) : t \in ToolNames}
                                  \cup {NotCalled}] :
          \E order \in CompletionOrders(k) :
            /\ \A i \in 1..k :
                 outs[i] \in IF ValidArgs(requested[base + i].tool,
                                          requested[base + i].args,
                                          requested[base + i].types)
                             THEN CollaboratorOutcomes(requested[base + i].tool)
                             ELSE {NotCalled}
            /\ LET results == [i \in 1..k |-> CallResult(requested[base + i], outs[i])]
                   failure == DispatchFailure([i \in 1..k |-> requested[base + i]],
                                              results, messages)
               IN /\ outcomes' = outcomes \o outs
                  /\ accessor_calls' = accessor_calls
                        \o Join([i \in 1..k |-> CallAccesses(requested[base + i])], <<>>)
                  /\ IF failure # NoValue
                     THEN /\ messages' = messages
                          /\ pc' = "raised"
                          /\ exc' = failure
                     ELSE /\ messages' = Append(messages,
                                [kind |-> "request",
                                 parts |-> [i \in 1..k |->
                                    IF results[order[i]].kind = "retry"
                                    THEN RetryPromptPart(requested[base + order[i]],
                                                         results[order[i]].value)
                                    ELSE ToolReturnPart(requested[base + order[i]],
                                                        results[order[i]].value)]])
                          /\ pc' = "engine"
                          /\ exc' = exc
    /\ UNCHANGED <<argsForm, conversation_history, user_message, namespace, deps,
                   filtered_history, enhanced_message, requested, output, response>>
    /\ UNCHANGED <<passed_history, engine_runs, usage, http, analysisVars>>
    /\ UNCHANGED <<concurrentVars, documentVars>>

FinalTexts == {<<"final answer">>}

\* result.usage() when the engine reports no usage: None
NoUsage == [absent |-> TRUE]

\* the token counts the engine reports for a turn
TokenCounts == {0, 35, 120}

\* what result.usage() can be
Usages == {NoUsage} \cup [input_tokens : TokenCounts, output_tokens : TokenCounts]

\* the usage report of the tool-loop, context and analysis specifications
LoopUsages == {[input_tokens |-> 120, output_tokens |-> 35]}

\* agent.run, line 498: the engine emits its final answer and reports the
\* usage of the run
EngineFinal(usages) ==
    /\ pc = "engine"
    /\ \E text \in FinalTexts :
         /\ messages' = Append(messages,
              [kind |-> "response", parts |-> <<[part_kind |-> "text", content |-> text]>>])
         /\ output' = text
    /\ \E u \in usages : usage' = u
    /\ pc' = "extract"
    /\ UNCHANGED <<argsForm, conversation_history, user_message, namespace, deps,
                   filtered_history, enhanced_message, requested, outcomes, response, exc>>
    /\ UNCHANGED <<passed_history, engine_runs, http, analysisVars>>
    /\ UNCHANGED <<accessor_calls, concurrentVars, documentVars>>

\* EngineFail with the failure isolated: chat returns a response without text
EngineFail_Isolated ==
    /\ pc = "engine"
    /\ pc' = "done"
    /\ response' = [response |-> <<>>, tool_calls |-> ExtractToolCalls(messages),
                    model |-> ModelName, usage |-> NoValue]
    /\ UNCHANGED <<argsForm, conversation_history, user_message, namespace, deps,
                   filtered_history, enhanced_message, messages, requested, outcomes, output, exc>>
    /\ UNCHANGED <<passed_history, engine_runs, usage, http, analysisVars>>
    /\ UNCHANGED <<accessor_calls, concurrentVars, documentVars>>

\* agent.run raises, lines 542-544: chat logs and re-raises
EngineFail ==
    /\ pc = "engine"
    /\ pc' = "raised"
    /\ exc' = [origin |-> "engine", error |-> "reasoning engine failed"]
    /\ UNCHANGED <<argsForm, conversation_history, user_message, namespace, deps,
                   filtered_history, enhanced_message, messages, requested, outcomes, output, response>>
    /\ UNCHANGED <<passed_history, engine_runs, usage, http, analysisVars>>
    /\ UNCHANGED <<accessor_calls, concurrentVars, documentVars>>

\* UsageDict with the total taken from the input count alone
UsageDict_TotalIsInput(u) ==
    IF u # NoUsage
    THEN [input_tokens |-> u.input_tokens, output_tokens |-> u.output_tokens,
          total_tokens |-> u.input_tokens]
    ELSE NoValue

\* lines 535-539: the "usage" entry of the response (NoValue is None)
UsageDict(u) ==
    IF u # NoUsage
    THEN [input_tokens |-> u.input_tokens, output_tokens |-> u.output_tokens,
          total_tokens |-> u.input_tokens + u.output_tokens]
    ELSE NoValue

\* lines 500-540: log the usage, extract the tool-call records and return
\* the response; line 504 reads usage.input_tokens, which raises
\* AttributeError when usage is None, and lines 542-544 re-raise it
ChatFinish ==
    /\ pc = "extract"
    /\ IF usage = NoUsage
       THEN /\ pc' = "raised"
            /\ exc' = [origin |-> "chat",
                       error |-> "'NoneType' object has no attribute 'input_tokens'"]
            /\ response' = response
       ELSE /\ response' = [response |-> output,
                            tool_calls |-> ExtractToolCalls(messages),
                            model |-> ModelName,
                            usage |-> UsageDict(usage)]
            /\ pc' = "done"
            /\ exc' = exc
    /\ UNCHANGED <<argsForm, conversation_history, user_message, namespace, deps,
                   filtered_history, enhanced_message, messages, requested, outcomes, output>>
    /\ UNCHANGED <<passed_history, engine_runs, usage, http, analysisVars>>
    /\ UNCHANGED <<accessor_calls, concurrentVars, documentVars>>

(***************************************************************************)
(* The chat endpoint: send_message, chat.py lines 55-87.                   *)
(***************************************************************************)
\* ChatResponse(**response), chat.py lines 24-29 and 83: the model declares
\* response, tool_calls and model; a key it does not declare is ignored
ChatResponse(resp) ==
    [response |-> resp.response, tool_calls |-> resp.tool_calls, model |-> resp.model]

\* chat.py lines 85-87: HTTPException(status_code=500, detail=str(e))
EndpointFailure(e) == [status |-> 500, detail |-> e.error]

\* chat.py lines 83-87: chat has returned or raised
SendMessageReturn ==
    /\ apc = "idle"
    /\ http = NoValue
    /\ pc \in {"done", "raised"}
    /\ http' = IF pc = "done" THEN [status |-> 200, body |-> ChatResponse(response)]
               ELSE EndpointFailure(exc)
    /\ UNCHANGED <<argsForm, pc, conversation_history, user_message, namespace, deps,
                   filtered_history, enhanced_message, messages, requested, outcomes,
                   output, response, exc, passed_history, engine_runs, usage,
                   analysisVars, accessor_calls, concurrentVars, documentVars>>

(***************************************************************************)
(* Proactive analysis: SREAgent.analyze_pod_issues, lines 546-619.         *)
(***************************************************************************)
\* line 577: a container is reported when its restart count is above this
RestartThreshold == 5

PodName(i) == "web-" \o ToString(i)

ContainerName(j) == "c" \o ToString(j)

Phases == {"Running", "CrashLoopBackOff"}

RestartCounts == {5, 7}

\* the conditions the accessor reports for a pod in a phase
ConditionsOf(phase) ==
    <<[type |-> "Ready", status |-> IF phase = "Running" THEN "True" ELSE "False"]>>

\* the containers a pod can have when it has at most c of them: distinct
\* names, any restart counts
ContainerLists(c) ==
    UNION {{[j \in 1..n |-> [name |-> ContainerName(j), restart_count |-> r[j]]] :
              r \in [1..n -> RestartCounts]} : n \in 0..c}

\* the number of containers of a list of pods
RECURSIVE ContainerCount(_)
ContainerCount(pods) ==
    IF pods = <<>> THEN 0 ELSE Len(Head(pods).containers) + ContainerCount(Tail(pods))

\* the lists of n pods with at most c containers in all
RECURSIVE PodLists(_, _)
PodLists(n, c) ==
    IF n = 0 THEN {<<>>}
    ELSE UNION {{Append(rest, [name |-> PodName(n), status |-> ph,
                               conditions |-> ConditionsOf(ph), containers |-> cs]) :
                   ph \in Phases, cs \in ContainerLists(c - ContainerCount(rest))} :
                  rest \in PodLists(n - 1, c)}

\* K8sClient.get_pods, k8s_client.py lines 60-105: the snapshots it can
\* return, with the fields analyze_pod_issues reads
Snapshots ==
    {[pods |-> pods, count |-> Len(pods)] :
       pods \in UNION {PodLists(n, MaxContainers) : n \in 0..MaxPods}}

\* ContainerIssues leaving the loop at the first container it reports
RECURSIVE ContainerIssues_StopsAtFirst(_, _)
ContainerIssues_StopsAtFirst(pod, containers) ==
    IF containers = <<>> THEN <<>>
    ELSE IF Head(containers).restart_count > RestartThreshold
         THEN <<[pod |-> pod.name, container |-> Head(containers).name,
                 issue |-> "high_restart_count",
                 restart_count |-> Head(containers).restart_count]>>
         ELSE ContainerIssues_StopsAtFirst(pod, Tail(containers))

\* lines 576-585: the issues of the containers of a pod
RECURSIVE ContainerIssues(_, _)
ContainerIssues(pod, containers) ==
    IF containers = <<>> THEN <<>>
    ELSE (IF Head(containers).restart_count > RestartThreshold
          THEN <<[pod |-> pod.name, container |-> Head(containers).name,
                  issue |-> "high_restart_count",
                  restart_count |-> Head(containers).restart_count]>>
          ELSE <<>>) \o ContainerIssues(pod, Tail(containers))

\* PodIssues reporting a container from the threshold on
PodIssues_FromThreshold(pod) ==
    (IF pod.status # "Running"
     THEN <<[pod |-> pod.name, status |-> pod.status, conditions |-> pod.conditions]>>
     ELSE <<>>)
    \o SelectSeq([j \in DOMAIN pod.containers |->
                     [pod |-> pod.name, container |-> pod.containers[j].name,
                      issue |-> "high_restart_count",
                      restart_count |-> pod.containers[j].restart_count]],
                 LAMBDA i : i.restart_count >= RestartThreshold)

\* lines 566-585: the issues of one pod
PodIssues(pod) ==
    (IF pod.status # "Running"
     THEN <<[pod |-> pod.name, status |-> pod.status, conditions |-> pod.conditions]>>
     ELSE <<>>) \o ContainerIssues(pod, pod.containers)

\* DetectIssues putting the issues of a pod before those of the pods before it
RECURSIVE DetectIssues_LastPodFirst(_)
DetectIssues_LastPodFirst(pods) ==
    IF pods = <<>> THEN <<>>
    ELSE DetectIssues_LastPodFirst(Tail(pods)) \o PodIssues(Head(pods))

\* lines 564-585
RECURSIVE DetectIssues(_)
DetectIssues(pods) ==
    IF pods = <<>> THEN <<>>
    ELSE PodIssues(Head(pods)) \o DetectIssues(Tail(pods))

\* json.dumps of one issue, as tokens
IssueJson(issue) ==
    IF "container" \in DOMAIN issue
    THEN <<"{\"pod\": ", issue.pod, ", \"container\": ", issue.container,
           ", \"issue\": ", issue.issue,
           ", \"restart_count\": ", ToString(issue.restart_count), "}">>
    ELSE <<"{\"pod\": ", issue.pod, ", \"status\": ", issue.status,
           ", \"conditions\": [">>
         \o Join([c \in DOMAIN issue.conditions |->
                    <<"{\"type\": ", issue.conditions[c].type,
                      ", \"status\": ", issue.conditions[c].status, "}">>], <<", ">>)
         \o <<"]}">>

\* line 595: json.dumps(issues, indent=2), as tokens
IssuesJson(list) ==
    <<"[">> \o Join([k \in DOMAIN list |-> IssueJson(list[k])], <<",", NL>>) \o <<"]">>

\* lines 596-606: the analysis prompt
AnalysisPrompt(list, ns) ==
    <<"Analyze these Kubernetes pod issues and provide recommendations:", NL, NL,
      "Issues found:", NL>>
      \o IssuesJson(list)
      \o <<NL, NL, "Namespace: ", ns, NL, NL, "Please provide:", NL,
           "1. Root cause analysis for each issue", NL,
           "2. Recommended actions to resolve", NL,
           "3. Preventive measures">>

\* AnalysisChatArgs without the namespace keyword: chat's default applies
AnalysisChatArgs_DefaultNamespace(list, ns) ==
    [user_message |-> AnalysisPrompt(list, ns),
     conversation_history |-> [given |-> FALSE, list |-> <<>>],
     namespace |-> "default"]

\* line 608: self.chat(analysis_prompt, namespace=namespace)
AnalysisChatArgs(list, ns) ==
    [user_message |-> AnalysisPrompt(list, ns),
     conversation_history |-> [given |-> FALSE, list |-> <<>>],
     namespace |-> ns]

\* HealthyResult counting the issues instead of the pods
HealthyResult_CountsIssues(pods, list, ns) ==
    [status |-> "healthy",
     message |-> <<"All pods in namespace '", ns, "' appear healthy">>,
     pods_checked |-> Len(list)]

\* lines 588-592
HealthyResult(pods, list, ns) ==
    [status |-> "healthy",
     message |-> <<"All pods in namespace '", ns, "' appear healthy">>,
     pods_checked |-> Len(pods)]

\* lines 610-615
IssuesFoundResult(list, resp) ==
    [status |-> "issues_found", issues |-> list,
     analysis |-> resp.response, tool_calls |-> resp.tool_calls]

\* the label selectors of an analysis request (None, or a selector)
LabelSelectors == {None, "app=web"}

\* the requests analyze_pods passes on, chat.py line 114: the default
\* namespace without a selector, and the labelled pods of another namespace
AnalysisRequests ==
    {[namespace |-> "default", label_selector |-> None]}
      \cup {[namespace |-> ns, label_selector |-> selector] :
               ns \in Namespaces \ {"default"}, selector \in LabelSelectors \ {None}}

\* SnapshotFetch leaving the label selector out
SnapshotFetch_NoSelector(request) ==
    [op |-> "get_pods", tool_call_id |-> 0,
     args |-> [namespace |-> request.namespace, label_selector |-> None]]

\* line 561: self.k8s_client.get_pods(namespace, label_selector), a call of
\* the accessor that no tool call asked for (identifier 0)
SnapshotFetch(request) ==
    [op |-> "get_pods", tool_call_id |-> 0,
     args |-> [namespace |-> request.namespace,
               label_selector |-> request.label_selector]]

\* lines 559-608: fetch the pod snapshot (the fetch may raise: lines
\* 617-619), detect the issues, return at once when there are none and
\* otherwise call chat with the analysis prompt
AnalyzeBegin ==
    /\ apc = "idle"
    /\ pc = "idle"
    /\ \E request \in AnalysisRequests :
       LET ns == request.namespace IN
         /\ an_request' = request
         /\ accessor_calls' = Append(accessor_calls, SnapshotFetch(request))
         /\ \/ /\ apc' = "raised"
               /\ an_exc' = [origin |-> "accessor", error |-> "(403) Reason: Forbidden"]
               /\ UNCHANGED <<pods_data, issues, analysis>>
               /\ UNCHANGED <<argsForm, pc, conversation_history, user_message,
                              namespace, deps, filtered_history, enhanced_message,
                              messages, requested, outcomes, output, response, exc,
                              passed_history, engine_runs, usage>>
            \/ \E snapshot \in Snapshots :
                 LET found == DetectIssues(snapshot.pods)
                     args == AnalysisChatArgs(found, ns)
                 IN /\ pods_data' = snapshot
                    /\ issues' = found
                    /\ an_exc' = an_exc
                    /\ IF found = <<>>
                       THEN /\ analysis' = HealthyResult(snapshot.pods, found, ns)
                            /\ apc' = "done"
                            /\ UNCHANGED <<argsForm, pc, conversation_history,
                                           user_message, namespace, deps,
                                           filtered_history, enhanced_message, messages,
                                           requested, outcomes, output, response, exc,
                                           passed_history, engine_runs, usage>>
                       ELSE /\ analysis' = analysis
                            /\ apc' = "chat"
                            /\ ChatCall(args.conversation_history, args.user_message,
                                        args.namespace)
    /\ http' = http
    /\ UNCHANGED <<concurrentVars, documentVars>>

\* lines 610-619: chat has returned or raised
AnalyzeFinish ==
    /\ apc = "chat"
    /\ pc \in {"done", "raised"}
    /\ IF pc = "done"
       THEN /\ analysis' = IssuesFoundResult(issues, response)
            /\ apc' = "done"
            /\ an_exc' = an_exc
       ELSE /\ analysis' = analysis
            /\ apc' = "raised"
            /\ an_exc' = exc
    /\ UNCHANGED <<argsForm, pc, conversation_history, user_message, namespace, deps,
                   filtered_history, enhanced_message, messages, requested, outcomes,
                   output, response, exc, passed_history, engine_runs, usage, http,
                   an_request, pods_data, issues, accessor_calls, concurrentVars,
                   documentVars>>

(***************************************************************************)
(* DocumentService, document_service.py, and the search_runbooks tool.     *)
(***************************************************************************)
\* line 99: f"doc_{self.collection.count() + 1}"
GeneratedId(count) == "doc_" \o ToString(count + 1)

\* the IDs a caller passes to index_document, None for no ID
GivenIds == {None, "runbook", "doc_2"}

\* the IDs a caller passes to delete_document
DeletedIds == {GeneratedId(n) : n \in 0..(MaxDocs - 1)} \cup (GivenIds \ {None})

DocumentContent == "restart the pod"

\* what the embedding request of _generate_embedding does, lines 65-74
EmbeddingOutcomes == {[kind |-> "ok"], [kind |-> "raise", error |-> "embedding failed"]}

\* what collection.add does with an ID that is in the collection already:
\* the vector store ignores the document or raises
DuplicateOutcomes == {"ignored", "raised"}

HasId(coll, id) == \E doc \in coll : doc.id = id

\* index_document, lines 93-114
IndexDocument ==
    /\ Cardinality(collection) < MaxDocs
    /\ \E given \in GivenIds, embedding \in EmbeddingOutcomes, dup \in DuplicateOutcomes :
         LET doc_id == IF given = None
                       THEN GeneratedId(Cardinality(collection)) ELSE given
             existed == HasId(collection, doc_id)
         IN IF embedding.kind = "raise"
            THEN /\ collection' = collection
                 /\ doc_op' = [op |-> "index_document", given |-> given,
                               outcome |-> "raised", error |-> embedding.error]
            ELSE IF existed
            THEN /\ collection' = collection
                 /\ doc_op' = [op |-> "index_document", given |-> given,
                               doc_id |-> doc_id, existed |-> TRUE,
                               outcome |-> IF dup = "ignored" THEN "returned"
                                           ELSE "raised"]
            ELSE /\ collection' = collection
                      \cup {[id |-> doc_id, content |-> DocumentContent,
                              metadata |-> [source |-> "kb"]]}
                 /\ doc_op' = [op |-> "index_document", given |-> given,
                               doc_id |-> doc_id, existed |-> FALSE,
                               outcome |-> "returned"]
    /\ UNCHANGED <<argsForm, pc, conversation_history, user_message, namespace, deps,
                   filtered_history, enhanced_message, messages, requested, outcomes,
                   output, response, exc, passed_history, engine_runs, usage, http,
                   analysisVars, accessor_calls, concurrentVars>>

\* delete_document, lines 257-270
DeleteDocument ==
    /\ \E doc_id \in DeletedIds :
         /\ collection' = {doc \in collection : doc.id # doc_id}
         /\ doc_op' = [op |-> "delete_document", doc_id |-> doc_id,
                       outcome |-> "returned"]
    /\ UNCHANGED <<argsForm, pc, conversation_history, user_message, namespace, deps,
                   filtered_history, enhanced_message, messages, requested, outcomes,
                   output, response, exc, passed_history, engine_runs, usage, http,
                   analysisVars, accessor_calls, concurrentVars>>

\* a list of the result of collection.query, which may be None
ListOf(rows) == [none |-> FALSE, rows |-> rows]

NoList == [none |-> TRUE, rows |-> <<>>]

\* the orders in which a query can return n documents at most
QueryOrders(coll, n) ==
    LET size == IF Cardinality(coll) < n THEN Cardinality(coll) ELSE n
    IN {q \in SeqsUpTo(coll, size) :
          Len(q) = size /\ \A i, j \in DOMAIN q : q[i] = q[j] => i = j}

\* collection.query, lines 200-204: one row of documents for the one query
\* embedding; a query that yields no document gives an empty row, no row,
\* or None
QueryResults(coll, n) ==
    IF coll = {}
    THEN {[documents |-> d, metadatas |-> d, distances |-> d, ids |-> d] :
            d \in {ListOf(<< <<>> >>), ListOf(<<>>), NoList}}
    ELSE {[documents |-> ListOf(<<[i \in DOMAIN q |-> q[i].content]>>),
           metadatas |-> ListOf(<<[i \in DOMAIN q |-> q[i].metadata]>>),
           distances |-> ListOf(<<[i \in DOMAIN q |-> i]>>),
           ids |-> ListOf(<<[i \in DOMAIN q |-> q[i].id]>>)] : q \in QueryOrders(coll, n)}

\* FormatResults reading the first row without testing that there is one
FormatResults_UnguardedRow(results) ==
    IF results.documents.none
    THEN [kind |-> "raise", error |-> "'NoneType' object is not subscriptable"]
    ELSE IF results.documents.rows = <<>>
    THEN [kind |-> "raise", error |-> "list index out of range"]
    ELSE [kind |-> "return",
          value |-> [i \in DOMAIN results.documents.rows[1] |->
                       [content |-> results.documents.rows[1][i],
                        metadata |-> results.metadatas.rows[1][i],
                        distance |-> results.distances.rows[1][i],
                        id |-> results.ids.rows[1][i]]]]

\* lines 206-217: the list search_documents builds from the query result
FormatResults(results) ==
    IF /\ ~results.documents.none
       /\ results.documents.rows # <<>>
       /\ results.documents.rows[1] # <<>>
    THEN [kind |-> "return",
          value |-> [i \in DOMAIN results.documents.rows[1] |->
                       [content |-> results.documents.rows[1][i],
                        metadata |-> results.metadatas.rows[1][i],
                        distance |-> results.distances.rows[1][i],
                        id |-> results.ids.rows[1][i]]]]
    ELSE [kind |-> "return", value |-> <<>>]

\* search_documents, lines 178-229: an exception is logged and raised again
SearchDocuments(embedding, results) ==
    IF embedding.kind = "raise" THEN embedding ELSE FormatResults(results)

\* search_runbooks, lines 277-290, on the document service
SearchRunbooks ==
    /\ LET input == ToolInput("search_runbooks", EngineArgs("search_runbooks").map)
       IN \E embedding \in EmbeddingOutcomes :
          \E results \in QueryResults(collection, input.n_results) :
            LET found == SearchDocuments(embedding, results)
            IN doc_op' = [op |-> "search_runbooks", input |-> input,
                          queried |-> embedding.kind = "ok",
                          results |-> results,
                          found |-> found,
                          payload |-> IF found.kind = "return"
                                      THEN ToolPayload("search_runbooks", input,
                                                       found.value)
                                      ELSE ToolFailure("search_runbooks",
                                                       found.error).value]
    /\ UNCHANGED <<argsForm, pc, conversation_history, user_message, namespace, deps,
                   filtered_history, enhanced_message, messages, requested, outcomes,
                   output, response, exc, passed_history, engine_runs, usage, http,
                   analysisVars, accessor_calls, concurrentVars, collection>>

\* the document service indexing, deleting and being searched
NextDocuments ==
    \/ IndexDocument
    \/ DeleteDocument
    \/ SearchRunbooks

SpecDocuments == Init /\ [][NextDocuments]_vars

(***************************************************************************)
(* Concurrent turns: chat.py lines 32-87 and 90-119 serve each request in  *)
(* its own coroutine, which runs until its next await.                     *)
(***************************************************************************)
\* the requests that arrive concurrently: a chat message, and an analysis
\* that found an issue
ConcurrentRequests ==
    {[kind |-> "chat", namespace |-> "default"],
     [kind |-> "analysis", namespace |-> "kube-system"]}

\* the issues of the analysis request
ArrivedIssues ==
    <<[pod |-> "web-1", status |-> "CrashLoopBackOff",
       conditions |-> ConditionsOf("CrashLoopBackOff")]>>

\* the tools the engine is offered in the concurrent specification
ConcurrentTools == {"get_pods", "get_events"}

\* chat.py lines 70-81 and 114, ai_agent.py lines 457-498 and 594-608: a
\* request arrives; chat builds the dependency context and the prompt of
\* the turn in its own frame and awaits agent.run
TurnArrive ==
    /\ Len(turns) < MaxTurns
    /\ \E request \in ConcurrentRequests :
         LET h == IF request.kind = "chat"
                  THEN CHOOSE x \in LoopHistories : TRUE
                  ELSE AnalysisChatArgs(ArrivedIssues, request.namespace).conversation_history
             m == IF request.kind = "chat"
                  THEN <<"why is web-1 failing?">>
                  ELSE AnalysisChatArgs(ArrivedIssues, request.namespace).user_message
             n == IF request.kind = "chat"
                  THEN request.namespace
                  ELSE AnalysisChatArgs(ArrivedIssues, request.namespace).namespace
         IN turns' = Append(turns,
              [request |-> request,
               pc |-> "engine",
               deps |-> [default_namespace |-> n],
               enhanced_message |-> BuildPrompt(h, m, n),
               messages |-> <<[kind |-> "request",
                               parts |-> <<[part_kind |-> "system-prompt"],
                                           [part_kind |-> "user-prompt",
                                            content |-> BuildPrompt(h, m, n)]>>]>>,
               requested |-> <<>>,
               result |-> NoValue])
    /\ UNCHANGED <<argsForm, pc, conversation_history, user_message, namespace, deps,
                   filtered_history, enhanced_message, messages, requested, outcomes,
                   output, response, exc, passed_history, engine_runs, usage, http,
                   analysisVars, accessor_calls, documentVars>>

\* the tool calls the turns have requested so far
RequestedByAll(all) == Join([u \in DOMAIN all |-> all[u].requested], <<>>)

\* agent.run of turn t, line 498: the engine requests a tool; the turns
\* request MaxCalls tools at most between them
TurnRequestTool(t) ==
    /\ turns[t].pc = "engine"
    /\ Len(RequestedByAll(turns)) < MaxCalls
    /\ \E tool \in ConcurrentTools :
         LET id == Len(turns[t].requested) + 1
         IN turns' = [turns EXCEPT
              ![t].requested = Append(@, [id |-> id, tool |-> tool,
                                          args |-> EngineArgs(tool).map]),
              ![t].messages = Append(@, [kind |-> "response",
                                         parts |-> <<ToolCallPart(id, tool)>>]),
              ![t].pc = "tools"]
    /\ UNCHANGED <<argsForm, pc, conversation_history, user_message, namespace, deps,
                   filtered_history, enhanced_message, messages, requested, outcomes,
                   output, response, exc, passed_history, engine_runs, usage, http,
                   analysisVars, accessor_calls, documentVars>>

\* agent.run of turn t, line 498: the requested tool runs on the
\* collaborators, which all turns of an agent share
TurnDispatch(t) ==
    /\ turns[t].pc = "tools"
    /\ LET call == turns[t].requested[Len(turns[t].requested)]
           input == ToolInput(call.tool, call.args)
       IN /\ \E outcome \in CollaboratorOutcomes(call.tool) :
               turns' = [turns EXCEPT
                 ![t].messages = Append(@,
                    [kind |-> "request",
                     parts |-> <<ToolReturnPart(call,
                                   RunTool(call.tool, input, outcome).value)>>]),
                 ![t].pc = "engine"]
          /\ accessor_calls' = accessor_calls
                \o [i \in DOMAIN AccessorCalls(call.tool, input, call.id) |->
                      [turn |-> t, call |-> AccessorCalls(call.tool, input, call.id)[i]]]
    /\ UNCHANGED <<argsForm, pc, conversation_history, user_message, namespace, deps,
                   filtered_history, enhanced_message, messages, requested, outcomes,
                   output, response, exc, passed_history, engine_runs, usage, http,
                   analysisVars, documentVars>>

\* TurnRecords when the records are kept in a list of the agent
TurnRecords_SharedList(t, all) ==
    Join([u \in DOMAIN all |-> ExtractToolCalls(all[u].messages)], <<>>)

\* lines 507-529: the records of turn t are read from the messages of its
\* own run into a list created in its own frame
TurnRecords(t, all) == ExtractToolCalls(all[t].messages)

\* lines 498-540 and 610-615: the engine gives turn t its final answer, and
\* chat builds the response without another await; an analysis builds its
\* result from it
TurnFinal(t) ==
    /\ turns[t].pc = "engine"
    /\ \E text \in FinalTexts, u \in LoopUsages :
         LET msgs == Append(turns[t].messages,
                       [kind |-> "response",
                        parts |-> <<[part_kind |-> "text", content |-> text]>>])
             resp == [response |-> text,
                      tool_calls |-> TurnRecords(t, [turns EXCEPT ![t].messages = msgs]),
                      model |-> ModelName,
                      usage |-> UsageDict(u)]
         IN turns' = [turns EXCEPT
              ![t].messages = msgs,
              ![t].result = IF turns[t].request.kind = "chat" THEN resp
                            ELSE IssuesFoundResult(ArrivedIssues, resp),
              ![t].pc = "done"]
    /\ UNCHANGED <<argsForm, pc, conversation_history, user_message, namespace, deps,
                   filtered_history, enhanced_message, messages, requested, outcomes,
                   output, response, exc, passed_history, engine_runs, usage, http,
                   analysisVars, accessor_calls, documentVars>>

\* requests served concurrently
NextConcurrent ==
    \/ TurnArrive
    \/ \E t \in DOMAIN turns : TurnRequestTool(t)
    \/ \E t \in DOMAIN turns : TurnDispatch(t)
    \/ \E t \in DOMAIN turns : TurnFinal(t)

SpecConcurrent == Init /\ [][NextConcurrent]_vars

\* a turn with its tool-use loop
Next ==
    \/ ChatBegin(LoopHistories, {<<"why is web-1 failing?">>}, {"kube-system"})
    \/ EngineRequestTools
    \/ DispatchTools
    \/ EngineFinal(LoopUsages)
    \/ EngineFail
    \/ ChatFinish

Spec == Init /\ [][Next]_vars

\* a turn over every request, the engine answering at once
NextContext ==
    \/ ChatBegin(Histories, UserMessages, Namespaces)
    \/ EngineFinal(LoopUsages)
    \/ EngineFail
    \/ ChatFinish

SpecContext == Init /\ [][NextContext]_vars

\* the tools the engine is offered in the endpoint and analysis specifications
SideTools == {"get_pods", "delete_pod"}

\* a chat request served by the endpoint
NextEndpoint ==
    \/ ChatBegin(LoopHistories, {<<"why is web-1 failing?">>}, Namespaces)
    \/ RequestTools(MaxSideCalls, SideTools)
    \/ DispatchTools
    \/ EngineFinal(Usages)
    \/ EngineFail
    \/ ChatFinish
    \/ SendMessageReturn

SpecEndpoint == Init /\ [][NextEndpoint]_vars

\* the tools the engine is offered in the dispatch specification
DispatchOffered == {"get_pods", "delete_pod", "search_runbooks"}

\* a turn whose engine sends any arguments
NextDispatch ==
    \/ ChatBegin(LoopHistories, {<<"why is web-1 failing?">>}, Namespaces)
    \/ RequestAnyArgs(MaxSideCalls, DispatchOffered)
    \/ DispatchTools
    \/ EngineFinal(LoopUsages)
    \/ EngineFail
    \/ ChatFinish

SpecDispatch == Init /\ [][NextDispatch]_vars

\* a turn whose engine does not fail
NextLive ==
    \/ ChatBegin(LoopHistories, {<<"why is web-1 failing?">>}, {"kube-system"})
    \/ RequestTools(MaxSideCalls, ToolNames)
    \/ DispatchTools
    \/ EngineFinal(LoopUsages)
    \/ ChatFinish

\* every awaited step is resumed: the tools run, the engine eventually emits
\* its final answer, and chat goes on when agent.run has returned
SpecLive ==
    /\ Init
    /\ [][NextLive]_vars
    /\ WF_vars(DispatchTools)
    /\ WF_vars(EngineFinal(LoopUsages))
    /\ WF_vars(ChatFinish)

\* a proactive analysis with its synthetic turn
NextAnalysis ==
    \/ AnalyzeBegin
    \/ RequestTools(MaxSideCalls, SideTools)
    \/ DispatchTools
    \/ EngineFinal(LoopUsages)
    \/ EngineFail
    \/ ChatFinish
    \/ AnalyzeFinish

SpecAnalysis == Init /\ [][NextAnalysis]_vars

(***************************************************************************)
(* Properties of the tool dispatch and of the tool-call records.           *)
(***************************************************************************)
\* two dicts with the same keys and the same value under each key
SameMapping(a, b) ==
    /\ DOMAIN a = DOMAIN b
    /\ \A k \in DOMAIN a : a[k] = b[k]

\* the message parts of the run, in order
RECURSIVE AllParts(_)
AllParts(msgs) ==
    IF msgs = <<>> THEN <<>> ELSE Head(msgs).parts \o AllParts(Tail(msgs))

\* the tool-return parts that answer the call with identifier id
ReturnsOf(id) ==
    {i \in DOMAIN AllParts(messages) :
       /\ AllParts(messages)[i].part_kind = "tool-return"
       /\ AllParts(messages)[i].tool_call_id = id}

FailedCalls == {c \in DOMAIN outcomes : outcomes[c].kind = "raise"}

\* C1: whenever the collaborator operation of a dispatched tool call raised,
\* the tool returned a payload with the key "error" (it is the content of the
\* call's tool-return part), no exception of a tool leaves the turn, and a
\* finished turn carries a normal response.
C1_CollaboratorFailureIsolated ==
    /\ \A c \in FailedCalls :
         /\ ReturnsOf(c) # {}
         /\ \A i \in ReturnsOf(c) : "error" \in DOMAIN AllParts(messages)[i].content
    /\ pc = "raised" => exc.origin # "tool"
    /\ pc = "done" => /\ exc = NoValue
                      /\ DOMAIN response = {"response", "tool_calls", "model", "usage"}

\* a turn in which a read tool and a delete tool failed has returned normally
C1_Witness ==
    /\ pc = "done"
    /\ \E c, d \in FailedCalls :
         requested[c].tool \in ReadTools /\ requested[d].tool \in DeleteTools

\* C2: the result of a failing read tool is exactly {"error": message}, the
\* result of a failing delete tool exactly {"error": message, "status":
\* "failed"}, the message being the text of the collaborator's error.
C2_FailureShapeByClassification ==
    \A c \in FailedCalls : \A i \in ReturnsOf(c) :
       LET payload == AllParts(messages)[i].content
       IN /\ payload.error = outcomes[c].error
          /\ IF requested[c].tool \in ReadTools
             THEN DOMAIN payload = {"error"}
             ELSE /\ DOMAIN payload = {"error", "status"}
                  /\ payload.status = "failed"

\* both shapes have been fed back to the engine in one turn
C2_Witness ==
    /\ pc = "engine"
    /\ \E c, d \in FailedCalls :
         /\ requested[c].tool = "search_runbooks"
         /\ requested[d].tool = "delete_secret"
         /\ ReturnsOf(c) # {} /\ ReturnsOf(d) # {}

\* a is a subsequence of b
RECURSIVE IsSubsequence(_, _)
IsSubsequence(a, b) ==
    IF a = <<>> THEN TRUE
    ELSE IF b = <<>> THEN FALSE
    ELSE IF Head(a) = Head(b) THEN IsSubsequence(Tail(a), Tail(b))
    ELSE IsSubsequence(a, Tail(b))

RequestedTools == [c \in DOMAIN requested |-> requested[c].tool]

RecordedTools ==
    [j \in DOMAIN response.tool_calls |-> response.tool_calls[j].tool]

\* C3: the tool_calls list a turn returns holds a record for every tool call
\* the engine requested during the turn, failed calls included: the requested
\* tools, in order, are found among the records.
C3_EveryRequestedCallRecorded ==
    pc = "done" => IsSubsequence(RequestedTools, RecordedTools)

\* a turn with two requested calls, one of which failed, has returned
C3_Witness ==
    /\ pc = "done"
    /\ Len(requested) >= 2
    /\ FailedCalls # {}
    /\ Len(response.tool_calls) >= 2

\* the identifier of the call each record of the turn was built from
RECURSIVE SourcesOf(_)
SourcesOf(parts) ==
    IF parts = <<>> THEN <<>>
    ELSE (IF "tool_name" \in DOMAIN Head(parts)
          THEN <<Head(parts).tool_call_id>> ELSE <<>>) \o SourcesOf(Tail(parts))

RecordSources == SourcesOf(AllParts(messages))

\* the positions in tool_calls of the records built from call c
RecordsOf(c) == {j \in DOMAIN RecordSources : RecordSources[j] = c}

\* C4: the tool_calls list a turn returns has exactly one record per tool
\* call the engine requested; the parts that carry a tool's result add none.
C4_OneRecordPerCall ==
    pc = "done" => Len(response.tool_calls) = Len(requested)

\* C5: the records of a returned turn tell a failed call from a succeeded
\* one: a call of a tool that failed and a call of the same tool that
\* succeeded do not leave the same records.
C5_RecordsTellFailureFromSuccess ==
    pc = "done" =>
      \A c \in FailedCalls : \A d \in DOMAIN outcomes \ FailedCalls :
         requested[c].tool = requested[d].tool =>
           {response.tool_calls[j] : j \in RecordsOf(c)}
             # {response.tool_calls[j] : j \in RecordsOf(d)}

\* C6: the records are in the order of the engine's requests: every record of
\* an earlier requested call precedes every record of a later requested call.
C6_RecordsInRequestedOrder ==
    pc = "done" =>
      \A c, d \in DOMAIN requested :
         c < d => \A i \in RecordsOf(c), j \in RecordsOf(d) : i < j

\* C7: whatever form the engine gave the arguments, every requested call has
\* a record whose "arguments" is the mapping of the call's resolved
\* arguments, and no record holds the raw text of the arguments.
C7_ArgumentsAreResolvedMapping ==
    pc = "done" =>
      /\ \A c \in DOMAIN requested :
           \E j \in RecordsOf(c) :
              SameMapping(response.tool_calls[j].arguments, requested[c].args)
      /\ \A j \in DOMAIN response.tool_calls :
           "raw" \notin DOMAIN response.tool_calls[j].arguments

(***************************************************************************)
(* Properties of the conversation context builder.                         *)
(***************************************************************************)
\* the messages of the caller's history (none when it is absent)
HistoryList ==
    IF conversation_history.given THEN conversation_history.list ELSE <<>>

\* the canned initial greeting: an assistant message whose content contains
\* the greeting text
CannedGreeting(msg) ==
    /\ "role" \in DOMAIN msg /\ msg.role = "assistant"
    /\ "content" \in DOMAIN msg /\ Contains(msg.content, GreetingMarker)

KeptPositions == {i \in DOMAIN HistoryList : ~CannedGreeting(HistoryList[i])}

\* C8: the filtered history is the history without its canned greeting
\* messages: every other message is kept, and the kept messages have the
\* order and the count they have in the history.
C8_FilterRemovesExactlyGreeting ==
    pc # "idle" =>
      /\ Len(filtered_history) = Cardinality(KeptPositions)
      /\ \A i \in KeptPositions :
           SameMapping(filtered_history[Cardinality({j \in KeptPositions : j <= i})],
                       HistoryList[i])

\* a history of a user message quoting the greeting, the greeting and an
\* assistant answer has been filtered
C8_Witness ==
    /\ pc = "done"
    /\ Len(HistoryList) = 3
    /\ KeptPositions = {1, 3}
    /\ Get(HistoryList[1], "role", None) = "user"
    /\ Contains(Get(HistoryList[1], "content", <<>>), GreetingMarker)
    /\ Get(HistoryList[3], "role", None) = "assistant"
    /\ Len(filtered_history) = 2

\* the positions of the prompt that start a rendered history entry
EntryPositions ==
    {p \in DOMAIN enhanced_message : enhanced_message[p] \in {UserLabel, AssistantLabel}}

EndsWith(s, t) == Len(s) >= Len(t) /\ SubSeq(s, Len(s) - Len(t) + 1, Len(s)) = t

\* C9: with a non-empty filtered history the prompt starts with the
\* default-namespace line, holds one rendered entry for each filtered
\* message, in order, whatever the message's role, and ends with the
\* delimiter and the new user message.
C9_EveryFilteredMessageRendered ==
    (pc # "idle" /\ filtered_history # <<>>) =>
      /\ SubSeq(enhanced_message, 1, 3) = NamespaceLine(namespace)
      /\ EndsWith(enhanced_message, CurrentDelimiter \o <<NL>> \o user_message)
      /\ Cardinality(EntryPositions) = Len(filtered_history)
      /\ \A p \in EntryPositions :
           LET i == Cardinality({q \in EntryPositions : q <= p})
               content == Get(filtered_history[i], "content", <<>>)
           IN SubSeq(enhanced_message, p + 1, p + Len(content)) = content

\* C10: when the history is absent, empty or made of greeting messages only,
\* the prompt is the default-namespace line, line breaks and the new user
\* message, and nothing else.
C10_NoHistoryPrompt ==
    (pc # "idle" /\ KeptPositions = {}) =>
      \E n \in 0..2 :
         enhanced_message =
           NamespaceLine(namespace) \o [i \in 1..n |-> NL] \o user_message

\* a turn whose history held nothing but the greeting has returned
C10_Witness ==
    /\ pc = "done"
    /\ Len(HistoryList) >= 1
    /\ KeptPositions = {}

\* C11: a chat turn leaves the caller's history as it was when chat was
\* called: same length, same messages, same order, whether the turn returned
\* or raised.
C11_CallerHistoryUnchanged ==
    pc \in {"done", "raised"} => conversation_history = passed_history

\* a turn whose prompt was built without the greeting of its history has returned
C11_Witness ==
    /\ pc = "done"
    /\ Len(passed_history.list) = 2
    /\ CannedGreeting(passed_history.list[1])
    /\ Len(filtered_history) = 1

(***************************************************************************)
(* Properties of the usage accounting and of the chat endpoint.            *)
(***************************************************************************)
\* C12: when the engine reports no usage, the turn completes and its
\* response carries usage as absent.
C12_AbsentUsageSurfacedAsAbsent ==
    (usage = NoUsage /\ pc \in {"done", "raised"}) =>
      (pc = "done" /\ response.usage = NoValue)

\* C13: in the response of a turn that reports usage, total_tokens is the
\* sum of input_tokens and output_tokens, which are the engine's counts.
C13_TotalIsSumOfInputAndOutput ==
    (pc = "done" /\ response.usage # NoValue) =>
      /\ response.usage.input_tokens = usage.input_tokens
      /\ response.usage.output_tokens = usage.output_tokens
      /\ response.usage.total_tokens =
           response.usage.input_tokens + response.usage.output_tokens

\* a turn with 120 input and 35 output tokens has returned a total of 155
C13_Witness ==
    /\ pc = "done"
    /\ usage = [input_tokens |-> 120, output_tokens |-> 35]
    /\ response.usage.total_tokens = 155

\* C14: the response the endpoint gives its caller holds the final text, the
\* tool-call records, the model identifier and the usage that chat returned.
C14_EndpointResponseHasFourParts ==
    (http # NoValue /\ pc = "done") =>
      /\ http.status = 200
      /\ DOMAIN http.body = {"response", "tool_calls", "model", "usage"}
      /\ \A k \in DOMAIN response : k \in DOMAIN http.body /\ http.body[k] = response[k]

\* the pods of the snapshot the analysis fetched
SnapshotPods == IF pods_data = NoValue THEN <<>> ELSE pods_data.pods

\* the containers of a pod restarted more than 5 times
Offending(pod) == {j \in DOMAIN pod.containers : pod.containers[j].restart_count > 5}

\* a pod with nothing to report
Unremarkable(pod) == pod.status = "Running" /\ Offending(pod) = {}

\* the positions in a list of the issues about a pod as a whole
PhaseIssuesOf(list, pod) ==
    {k \in DOMAIN list : list[k].pod = pod.name /\ "container" \notin DOMAIN list[k]}

\* the positions in a list of the issues about one container of a pod
ContainerIssuesOf(list, pod, j) ==
    {k \in DOMAIN list : /\ list[k].pod = pod.name
                         /\ "container" \in DOMAIN list[k]
                         /\ list[k].container = pod.containers[j].name}

\* the positions in a list of all the issues of a pod
IssuesOfPod(list, pod) == {k \in DOMAIN list : list[k].pod = pod.name}

\* C15: an analysis whose snapshot has only running pods and only containers
\* restarted at most 5 times, the empty snapshot included, has returned
\* status healthy with pods_checked the number of pods of the snapshot, and
\* the engine has not been run.
C15_HealthySnapshotSkipsEngine ==
    (pods_data # NoValue /\ \A i \in DOMAIN SnapshotPods : Unremarkable(SnapshotPods[i])) =>
      /\ apc = "done"
      /\ analysis # NoValue
      /\ analysis.status = "healthy"
      /\ analysis.pods_checked = Len(SnapshotPods)
      /\ engine_runs = 0
      /\ pc = "idle"
      /\ messages = <<>>

\* two running pods, one with a container restarted exactly 5 times, were
\* found healthy
C15_Witness ==
    /\ apc = "done"
    /\ Len(SnapshotPods) = 2
    /\ \E i \in DOMAIN SnapshotPods : \E j \in DOMAIN SnapshotPods[i].containers :
         SnapshotPods[i].containers[j].restart_count = 5
    /\ analysis.status = "healthy"
    /\ analysis.pods_checked = 2

\* C16: for every pod of the snapshot the detected issues hold exactly one
\* issue about the pod if its phase is not Running and none otherwise, and
\* exactly one issue for each container restarted more than 5 times and none
\* for any other container, so a pod that is not running with k such
\* containers has 1 + k issues.
C16_IndependentDetectionRules ==
    pods_data # NoValue =>
      \A i \in DOMAIN SnapshotPods :
        LET pod == SnapshotPods[i] IN
        /\ Cardinality(PhaseIssuesOf(issues, pod)) = IF pod.status # "Running" THEN 1 ELSE 0
        /\ \A j \in DOMAIN pod.containers :
             Cardinality(ContainerIssuesOf(issues, pod, j))
               = IF pod.containers[j].restart_count > 5 THEN 1 ELSE 0
        /\ Cardinality(IssuesOfPod(issues, pod))
             = (IF pod.status # "Running" THEN 1 ELSE 0) + Cardinality(Offending(pod))

\* a pod that is not running, with one container restarted 5 times and one
\* restarted 7 times, contributed two issues
C16_Witness ==
    /\ pods_data # NoValue
    /\ \E i \in DOMAIN SnapshotPods :
         LET pod == SnapshotPods[i] IN
         /\ pod.status # "Running"
         /\ \E j \in DOMAIN pod.containers : pod.containers[j].restart_count = 5
         /\ \E j \in DOMAIN pod.containers : pod.containers[j].restart_count = 7
         /\ Cardinality(IssuesOfPod(issues, pod)) = 2

\* C17: an analysis whose snapshot has a pod that is not running or a
\* container restarted more than 5 times has run the engine in exactly one
\* chat turn, and once that turn has returned the analysis returns status
\* issues_found with an issue in its list for every such pod and container;
\* it returns nothing else, and raises only when the turn raised.
C17_IssuesRoutedThroughOneTurn ==
    (pods_data # NoValue /\ \E i \in DOMAIN SnapshotPods : ~Unremarkable(SnapshotPods[i])) =>
      /\ engine_runs = 1
      /\ apc \in {"chat", "done", "raised"}
      /\ apc = "raised" => pc = "raised"
      /\ apc = "done" =>
           /\ pc = "done"
           /\ analysis.status = "issues_found"
           /\ \A i \in DOMAIN SnapshotPods :
                LET pod == SnapshotPods[i] IN
                /\ pod.status # "Running" =>
                     \E k \in PhaseIssuesOf(analysis.issues, pod) :
                        analysis.issues[k].status = pod.status
                /\ \A j \in Offending(pod) :
                     \E k \in ContainerIssuesOf(analysis.issues, pod, j) :
                        analysis.issues[k].restart_count = pod.containers[j].restart_count

\* pod web-1 in CrashLoopBackOff with a container restarted 7 times was
\* analysed and the result lists two issues or more
C17_Witness ==
    /\ apc = "done"
    /\ analysis.status = "issues_found"
    /\ \E i \in DOMAIN SnapshotPods :
         /\ SnapshotPods[i].name = "web-1"
         /\ SnapshotPods[i].status = "CrashLoopBackOff"
         /\ \E j \in DOMAIN SnapshotPods[i].containers :
              SnapshotPods[i].containers[j].restart_count = 7
    /\ Len(analysis.issues) >= 2
    /\ engine_runs = 1

\* the kind an issue carries, in whichever field
IssueKind(issue) ==
    IF "issue" \in DOMAIN issue THEN issue.issue
    ELSE IF "kind" \in DOMAIN issue THEN issue.kind
    ELSE None

\* C18: every detected issue carries a kind: high_restart_count when it is
\* about a container, not_running when it is about the phase of the pod.
C18_EveryIssueHasKind ==
    \A k \in DOMAIN issues :
      /\ IssueKind(issues[k]) \in {"not_running", "high_restart_count"}
      /\ IssueKind(issues[k]) = IF "container" \in DOMAIN issues[k]
                                THEN "high_restart_count" ELSE "not_running"

\* C19: the turn an analysis with issues runs has the namespace of the
\* analysis as its default namespace and no history, and the issues_found
\* result holds the analysis text and the tool-call records of that turn.
C19_SyntheticTurnFeedsResult ==
    /\ apc \in {"chat", "done"} /\ pods_data # NoValue /\ issues # <<>> =>
         /\ namespace = an_request.namespace
         /\ deps.default_namespace = an_request.namespace
         /\ passed_history.list = <<>>
         /\ filtered_history = <<>>
         /\ user_message = AnalysisPrompt(issues, an_request.namespace)
    /\ (apc = "done" /\ issues # <<>>) =>
         /\ analysis.analysis = output
         /\ analysis.analysis = response.response
         /\ analysis.tool_calls = ExtractToolCalls(messages)
         /\ analysis.tool_calls = response.tool_calls
         /\ analysis.issues = issues

\* an analysis of kube-system returned the text and the records of a turn
\* that called a tool
C19_Witness ==
    /\ apc = "done"
    /\ analysis.status = "issues_found"
    /\ an_request.namespace = "kube-system"
    /\ namespace = "kube-system"
    /\ Len(analysis.tool_calls) >= 1
    /\ analysis.analysis = output

\* C20: a failure of the engine is not isolated: chat raises, having returned
\* no response, a response exists only when the engine gave its final answer,
\* and the endpoint turns the failure into one error result without a body.
C20_EngineFailurePropagates ==
    /\ (pc = "raised" /\ exc.origin = "engine") => response = NoValue
    /\ pc = "done" => output \in FinalTexts
    /\ (http # NoValue /\ pc = "raised") =>
         /\ DOMAIN http = {"status", "detail"}
         /\ http.status = 500
         /\ http.detail = exc.error

\* the engine failed after a round of tool calls and the endpoint answered 500
C20_Witness ==
    /\ pc = "raised"
    /\ exc.origin = "engine"
    /\ Len(outcomes) >= 1
    /\ http # NoValue
    /\ http.status = 500

\* the collaborator operation a tool is there to invoke
ToolOperation(tool) ==
    IF tool = "search_runbooks" THEN "search_documents" ELSE tool

\* the calls of the collaborators made for the tool call with identifier id
AccessesOf(id) == {e \in DOMAIN accessor_calls : accessor_calls[e].tool_call_id = id}

\* the arguments of a call break the input schema of its tool
ViolatesSchema(call) ==
    \/ \E f \in DOMAIN FieldTypes(call.tool) \ DOMAIN FieldDefaults(call.tool) :
         f \notin DOMAIN call.args
    \/ \E f \in DOMAIN call.args \cap DOMAIN FieldTypes(call.tool) :
         ~TypeAccepts(FieldTypes(call.tool)[f], call.types[f])

\* the dispatched calls
Dispatched == DOMAIN outcomes

\* C21: every dispatched call with schema-valid arguments, of a read tool or
\* of a destructive tool, invoked the collaborator operation of its tool
\* with the arguments of the call; when the operation succeeded the tool's
\* result has no "error" key; and the response of the turn has a record
\* with the tool and the arguments of the call.
C21_DispatchInvokesCollaborator ==
    \A c \in Dispatched :
      ~ViolatesSchema(requested[c]) =>
        /\ \E e \in AccessesOf(c) :
             /\ accessor_calls[e].op = ToolOperation(requested[c].tool)
             /\ \A f \in DOMAIN requested[c].args \cap DOMAIN accessor_calls[e].args :
                  accessor_calls[e].args[f] = requested[c].args[f]
        /\ outcomes[c].kind = "ok" =>
             \A q \in ReturnsOf(c) : "error" \notin DOMAIN AllParts(messages)[q].content
        /\ pc = "done" =>
             \E j \in RecordsOf(c) :
               /\ response.tool_calls[j].tool = requested[c].tool
               /\ SameMapping(response.tool_calls[j].arguments, requested[c].args)

\* the operations the catalogue must cover
RequiredReadOperations ==
    {"get_namespaces", "get_pods", "get_pod_logs", "get_deployments", "get_services",
     "get_events"}

RequiredDeleteOperations ==
    {"delete_pod", "delete_deployment", "delete_service", "delete_statefulset",
     "delete_daemonset", "delete_configmap", "delete_secret"}

\* C22: the catalogue the engine is offered in a turn has a read tool for
\* each of namespaces, pods, pod logs, deployments, services and events, and
\* a destructive tool for each of the seven resource kinds.
C22_CatalogueCoversOperations ==
    pc = "engine" =>
      /\ RequiredReadOperations \subseteq {ToolOperation(t) : t \in ReadTools}
      /\ RequiredDeleteOperations \subseteq {ToolOperation(t) : t \in DeleteTools}
      /\ ReadTools \cup DeleteTools = ToolNames

\* C23: a dispatched call whose arguments break the input schema of its tool
\* never reached the collaborator: no call of a collaborator was made for
\* it, no tool result exists for it, and unless the run ended on it the
\* engine was sent the validation error for that call.
C23_ValidationPrecedesDispatch ==
    \A c \in Dispatched :
      ViolatesSchema(requested[c]) =>
        /\ outcomes[c] = NotCalled
        /\ AccessesOf(c) = {}
        /\ ReturnsOf(c) = {}
        /\ pc # "raised" =>
             \E q \in DOMAIN AllParts(messages) :
               /\ AllParts(messages)[q].part_kind = "retry-prompt"
               /\ AllParts(messages)[q].tool_call_id = c
               /\ AllParts(messages)[q].content = ValidationErrorText

\* search_runbooks was called without its required query, and the turn
\* ended with no call of a collaborator
C23_Witness ==
    /\ pc = "done"
    /\ Len(requested) >= 1
    /\ requested[1].tool = "search_runbooks"
    /\ "query" \notin DOMAIN requested[1].args
    /\ outcomes[1] = NotCalled
    /\ accessor_calls = <<>>

\* C27: a call of a namespace-scoped tool that gives no namespace reaches
\* the collaborator with the default namespace of the turn.
C27_DefaultNamespaceFromContext ==
    \A c \in Dispatched :
      "namespace" \notin DOMAIN requested[c].args =>
        \A e \in AccessesOf(c) :
          "namespace" \in DOMAIN accessor_calls[e].args =>
            accessor_calls[e].args.namespace = deps.default_namespace

\* the last message of the run is the final answer of the engine
EndsWithFinalAnswer ==
    /\ messages # <<>>
    /\ messages[Len(messages)].kind = "response"
    /\ \A q \in DOMAIN messages[Len(messages)].parts :
         messages[Len(messages)].parts[q].part_kind = "text"

\* C24: a turn whose engine is running eventually returns a response; the
\* run ends, and the turn returns or raises, only when the last message is
\* a final answer of the engine with no tool request and every requested
\* call was dispatched; the run is left only from the engine's step.
C24_LoopEndsWithFinalAnswer ==
    /\ (pc = "engine") ~> (pc = "done" /\ response # NoValue)
    /\ [](pc \in {"extract", "done", "raised"} =>
            EndsWithFinalAnswer /\ Len(outcomes) = Len(requested))
    /\ [][pc' = "extract" /\ pc # "extract" => pc = "engine"]_vars

\* a turn returned after the engine had requested a tool and been sent its result
C24_Witness ==
    /\ pc = "done"
    /\ Len(requested) >= 1
    /\ Len(outcomes) = Len(requested)
    /\ EndsWithFinalAnswer

\* the tools turn t requested
ToolsRequestedBy(t) == {turns[t].requested[c].tool : c \in DOMAIN turns[t].requested}

\* C25: in every interleaving of the turns, each turn has the dependency
\* context and the prompt of its own request, and the records of a finished
\* turn are those of the parts of its own run: none is of a tool only
\* another turn requested, and an analysis returns the records and the text
\* of its own turn.
C25_TurnsShareNoState ==
    \A t \in DOMAIN turns :
      /\ turns[t].deps.default_namespace = turns[t].request.namespace
      /\ SubSeq(turns[t].enhanced_message, 1, 3) = NamespaceLine(turns[t].request.namespace)
      /\ turns[t].pc = "done" =>
           LET records == turns[t].result.tool_calls IN
           /\ records = ExtractToolCalls(turns[t].messages)
           /\ \A j \in DOMAIN records : records[j].tool \in ToolsRequestedBy(t)
           /\ Len(records) <= 2 * Len(turns[t].requested)

\* a chat turn in default returned the records of its get_pods call while an
\* analysis turn in kube-system, which arrived later and whose get_events
\* call ran first, is still in flight
C25_Witness ==
    /\ Len(turns) = 2
    /\ turns[1].request.namespace = "default"
    /\ turns[2].request.namespace = "kube-system"
    /\ turns[1].pc = "done"
    /\ turns[2].pc = "engine"
    /\ ToolsRequestedBy(1) = {"get_pods"}
    /\ ToolsRequestedBy(2) = {"get_events"}
    /\ Len(accessor_calls) = 2
    /\ accessor_calls[1].turn = 2
    /\ accessor_calls[2].turn = 1
    /\ Len(turns[1].result.tool_calls) >= 1

\* the query of a search yielded no document
YieldedNothing(results) ==
    \/ results.documents.none
    \/ results.documents.rows = <<>>
    \/ \A r \in DOMAIN results.documents.rows : results.documents.rows[r] = <<>>

\* C26: a search whose query of the vector store yielded no document
\* returned the empty list, and the search_runbooks tool returned a payload
\* with an empty "results" list, the query, and no "error" key.
C26_EmptySearchIsNotAnError ==
    (doc_op # NoValue /\ doc_op.op = "search_runbooks" /\ doc_op.queried
       /\ YieldedNothing(doc_op.results)) =>
      /\ doc_op.found = [kind |-> "return", value |-> <<>>]
      /\ DOMAIN doc_op.payload = {"results", "query"}
      /\ doc_op.payload.results = <<>>
      /\ doc_op.payload.query = doc_op.input.query

\* the empty collection was searched for "pod crashloop" with n_results 3
\* and the query gave no row at all
C26_Witness ==
    /\ doc_op # NoValue
    /\ doc_op.op = "search_runbooks"
    /\ collection = {}
    /\ doc_op.queried
    /\ doc_op.results.documents = ListOf(<<>>)
    /\ doc_op.input.query = "pod crashloop"
    /\ doc_op.input.n_results = 3
    /\ doc_op.payload.results = <<>>

\* C30: the ID index_document generates for a document indexed without an
\* ID is not the ID of a document of the collection.
C30_GeneratedIdIsFresh ==
    (doc_op # NoValue /\ doc_op.op = "index_document" /\ doc_op.given = None
       /\ "doc_id" \in DOMAIN doc_op) => ~doc_op.existed

\* C28: an analysis has fetched the snapshot from the accessor, before
\* anything else, with the namespace and the label selector of its request;
\* when the fetch raised, the analysis raised the same error, returned no
\* result, and the engine was not run.
C28_FetchFailurePropagates ==
    /\ apc # "idle" =>
         /\ Len(accessor_calls) >= 1
         /\ accessor_calls[1].op = "get_pods"
         /\ accessor_calls[1].tool_call_id = 0
         /\ accessor_calls[1].args.namespace = an_request.namespace
         /\ accessor_calls[1].args.label_selector = an_request.label_selector
    /\ (apc # "idle" /\ pods_data = NoValue) =>
         /\ apc = "raised"
         /\ an_exc # NoValue
         /\ an_exc.origin = "accessor"
         /\ analysis = NoValue
         /\ engine_runs = 0
         /\ pc = "idle"
         /\ messages = <<>>
         /\ Len(accessor_calls) = 1

\* the fetch of the pods labelled app=web of kube-system raised
C28_Witness ==
    /\ apc = "raised"
    /\ pods_data = NoValue
    /\ an_request = [namespace |-> "kube-system", label_selector |-> "app=web"]
    /\ accessor_calls[1].args.label_selector = "app=web"
    /\ an_exc.origin = "accessor"
    /\ analysis = NoValue

\* where the snapshot has what an issue reports: the position of the pod,
\* then 0 for the pod itself or the position of the container
SnapshotPosition(issue) ==
    LET i == CHOOSE p \in DOMAIN SnapshotPods : SnapshotPods[p].name = issue.pod
    IN <<i, IF "container" \notin DOMAIN issue THEN 0
            ELSE CHOOSE j \in DOMAIN SnapshotPods[i].containers :
                   SnapshotPods[i].containers[j].name = issue.container>>

Before(p, q) == p[1] < q[1] \/ (p[1] = q[1] /\ p[2] < q[2])

\* the positions of a prompt at which the serialization of an issue starts,
\* in their order
IssueStarts(prompt) ==
    SelectSeq([k \in DOMAIN prompt |-> k], LAMBDA k : prompt[k] = "{\"pod\": ")

\* the piece of a sequence that starts at position k and has the length of
\* a given piece
PieceAt(seq, k, piece) == SubSeq(seq, k, k + Len(piece) - 1)

\* C29: the detected issues are in the order of the snapshot (pod by pod,
\* the issue about the pod before those about its containers, containers in
\* their order), the prompt of the analysis turn holds the serializations of
\* the issues, one after the other in that order, and the result returns the
\* same list.
C29_IssuesKeepSnapshotOrder ==
    /\ pods_data # NoValue =>
         \A a, b \in DOMAIN issues :
           a < b => Before(SnapshotPosition(issues[a]), SnapshotPosition(issues[b]))
    /\ (pods_data # NoValue /\ issues # <<>>) =>
         /\ Len(IssueStarts(user_message)) = Len(issues)
         /\ \A a \in DOMAIN issues :
              PieceAt(user_message, IssueStarts(user_message)[a], IssueJson(issues[a]))
                = IssueJson(issues[a])
    /\ (apc = "done" /\ issues # <<>>) => analysis.issues = issues

\* of two pods that are not running the second has a container restarted 7
\* times: three issues, and the result returned them in the snapshot's order
C29_Witness ==
    /\ apc = "done"
    /\ Len(SnapshotPods) = 2
    /\ Len(issues) = 3
    /\ "container" \notin DOMAIN issues[1] /\ issues[1].pod = SnapshotPods[1].name
    /\ "container" \notin DOMAIN issues[2] /\ issues[2].pod = SnapshotPods[2].name
    /\ "container" \in DOMAIN issues[3] /\ issues[3].pod = SnapshotPods[2].name
    /\ analysis.issues = issues

====
